---- MODULE Spec2Model ----
(***************************************************************************)
(* CLI Menu (Carlo47/CliMenu): a key-dispatched serial menu with blocking  *)
(* input handlers and a heartbeat LED serviced by the main loop.           *)
(*                                                                         *)
(* The model follows src/src/main.cpp (the ESP32 variant; cliMenu.cpp is   *)
(* the same program with a shorter table and handlers without argument).   *)
(* The Serial stream is the Arduino Stream of the ESP32 core: read(),      *)
(* available(), and the timed readers parseInt(), parseFloat() and         *)
(* readString(), which wait for the next byte until the inactivity timeout *)
(* elapses.  Time is not measured: whenever the receive buffer is empty a  *)
(* timed read may either see a byte arrive or time out.                    *)
(***************************************************************************)
EXTENDS Integers, Sequences, FiniteSets, TLC

(***************************************************************************)
(* Bounds of the model                                                     *)
(***************************************************************************)
\* total number of bytes the terminal sends in one behaviour
MaxInput == 3

(***************************************************************************)
(* Program constants                                                       *)
(***************************************************************************)
DefaultTimeout == 1000
HeartbeatPeriod == 1000
HeartbeatPulseWidth == 20
\* half-word radix used to write a uint32_t as hi * Limb + lo
Limb == 65536

CLEAR_LINE == "\r%*c\r"

\* The first byte the terminal sends: every declared key, an undeclared digit,
\* the sign, the decimal point and an undeclared letter.
FirstBytes == {"0", "1", "2", "3", "h", "d", "D", "i", "f", "s", "t", "S",
               "4", "-", ".", "x"}

\* The bytes it sends after the first: the key of each input handler, of the
\* toggle and of a handler with an argument (also a digit), the sign, the
\* decimal point and an undeclared letter.
LaterBytes == {"1", "d", "i", "f", "s", "t", "-", ".", "x"}

Digits == {"0", "1", "2", "3", "4", "5", "6", "7", "8", "9"}

DigitVal(c) ==
  CASE c = "0" -> 0 [] c = "1" -> 1 [] c = "2" -> 2 [] c = "3" -> 3
    [] c = "4" -> 4 [] c = "5" -> 5 [] c = "6" -> 6 [] c = "7" -> 7
    [] c = "8" -> 8 [] c = "9" -> 9

\* Samples of millis(), a uint32_t written as [hi, lo] half-words: the edges of
\* the pulse in the first two periods and around the wrap of the counter.
NowSamples ==
  { [hi |-> 0, lo |-> 0], [hi |-> 0, lo |-> 19], [hi |-> 0, lo |-> 20],
    [hi |-> 0, lo |-> 999], [hi |-> 0, lo |-> 1000],
    [hi |-> 65535, lo |-> 65259], [hi |-> 65535, lo |-> 65260] }

(***************************************************************************)
(* Menu definition                                                         *)
(***************************************************************************)
menu ==
  << [key |-> "0", txt |-> "[0] Klassik Radio",
      arg |-> "http://stream.klassikradio.de/live/mp3-128/stream.klassikradio.de",
      action |-> "playRadio"],
     [key |-> "1", txt |-> "[1] SRF1 AG-SO",
      arg |-> "http://stream.srg-ssr.ch/m/regi_ag_so/mp3_128", action |-> "playRadio"],
     [key |-> "2", txt |-> "[2] SRF2",
      arg |-> "http://stream.srg-ssr.ch/m/drs2/mp3_128", action |-> "playRadio"],
     [key |-> "3", txt |-> "[3] SRF3",
      arg |-> "http://stream.srg-ssr.ch/m/drs3/mp3_128", action |-> "playRadio"],
     [key |-> "h", txt |-> "[h] Say Hello", arg |-> "Guten Tag", action |-> "sayHello"],
     [key |-> "d", txt |-> "[d] Set date and time as: yyyy mm dd hh mm ss",
      arg |-> "", action |-> "setDateTime"],
     [key |-> "D", txt |-> "[D] Show date and time", arg |-> "", action |-> "showDateTime"],
     [key |-> "i", txt |-> "[i] Enter an integer", arg |-> "", action |-> "enterInteger"],
     [key |-> "f", txt |-> "[f] Enter a float", arg |-> "", action |-> "enterFloat"],
     [key |-> "s", txt |-> "[s] Enter a string", arg |-> "", action |-> "enterString"],
     [key |-> "t", txt |-> "[t] Toggle heartbeat", arg |-> "", action |-> "toggleHeartbeat"],
     [key |-> "S", txt |-> "[S] Show menu", arg |-> "", action |-> "showMenu"] >>

nbrMenuItems == Len(menu)

\* the handlers that read the stream and so run over several steps
InputActions == {"enterInteger", "enterFloat", "enterString", "setDateTime"}

(***************************************************************************)
(* State                                                                   *)
(***************************************************************************)
VARIABLES
  rx,                \* bytes received and not yet read (Serial receive buffer)
  timeout,           \* Serial's inactivity timeout in ms
  heartbeatEnabled,  \* the global flag
  pin,               \* level last written to LED_BUILTIN
  pc,                \* position of the single thread of control
  cur,               \* the input handler being run, "" when none
  loc,               \* locals of the running handler and of the timed reader
  key,               \* key read by the doMenu() call of this loop iteration
  invoked,           \* the calls action(arg) that doMenu() call made, in order
  scanned,           \* number of table entries that doMenu() call compared
  out,               \* what was printed since that doMenu() call began
  text,              \* receive buffer at the end of the handler's delay
  drained,           \* bytes the running handler has taken from the stream
  nArrived,          \* number of bytes received so far
  nKeys,             \* number of bytes read as a key by doMenu()
  nDrained,          \* number of bytes read by the handlers' timed readers
  lastNow,           \* millis() as read by the heartbeat call of this iteration
  pinWrites,         \* digitalWrite calls of this loop iteration
  preToggle          \* the flag before each of the last two toggleHeartbeat calls

progVars == <<rx, timeout, heartbeatEnabled, pin, pc, cur, loc>>
dispVars == <<key, invoked, scanned, out, text, drained>>
countVars == <<nArrived, nKeys, nDrained>>
beatVars == <<lastNow, pinWrites>>
vars == <<progVars, dispVars, countVars, beatVars, preToggle>>

\* one item written to Serial: the format and its string or number arguments
Emit(fmt, s, n, d) == [fmt |-> fmt, s |-> s, n |-> n, d |-> d]

NoLoc == [value |-> 0, fdigits |-> 0, str |-> <<>>, timeout |-> 0,
          acc |-> 0, isNegative |-> FALSE, isFraction |-> FALSE,
          accDigits |-> 0, ret |-> <<>>]

(***************************************************************************)
(* Handlers that read no input                                             *)
(***************************************************************************)
playRadio(url) == << Emit("Playing: %s", <<url>>, 0, 0) >>

sayHello(txt) == << Emit("%s", <<txt>>, 0, 0) >>

\* the formatted RTC time; the calendar value itself is not modelled
showDateTime(txt) == << Emit("%B %d %Y %T (%A)", <<>>, 0, 0) >>

showMenu(txt) ==
  << Emit("TITLE", <<>>, 0, 0) >>
  \o [i \in 1..nbrMenuItems |-> Emit("%s\n", <<menu[i].txt>>, 0, 0)]
  \o << Emit("\nPress a key: ", <<>>, 0, 0) >>

\* variant: the flag is tested but not negated
toggleHeartbeat_noNegate(enabled) ==
  [enabled |-> enabled,
   out |-> IF enabled THEN << Emit("Heartbeat on ", <<>>, 0, 0) >>
                      ELSE << Emit("Heartbeat off ", <<>>, 0, 0) >>]

toggleHeartbeat(enabled) ==
  [enabled |-> ~enabled,
   out |-> IF ~enabled THEN << Emit("Heartbeat on ", <<>>, 0, 0) >>
                       ELSE << Emit("Heartbeat off ", <<>>, 0, 0) >>]

(***************************************************************************)
(* doMenu: the scan of the table                                           *)
(***************************************************************************)
\* variant: the key is peeked and stays in the buffer
readKey_peek(buf) == [key |-> Head(buf), rest |-> buf]

\* char key = Serial.read();
readKey(buf) == [key |-> Head(buf), rest |-> Tail(buf)]

\* variant: the action of the following entry is called
Call_nextEntry(i) == [action |-> menu[(i % nbrMenuItems) + 1].action, arg |-> menu[i].arg]

\* the call menu[i].action(menu[i].arg)
Call(i) == [action |-> menu[i].action, arg |-> menu[i].arg]

\* variant: no break after the call
RECURSIVE doMenuScan_noBreak(_, _)
doMenuScan_noBreak(k, i) ==
  IF i > nbrMenuItems THEN [invoked |-> <<>>, scanned |-> nbrMenuItems]
  ELSE LET rest == doMenuScan_noBreak(k, i + 1)
       IN IF k = menu[i].key
            THEN [invoked |-> << Call(i) >> \o rest.invoked, scanned |-> rest.scanned]
            ELSE rest

\* variant: a key found in no entry falls through to the last entry
RECURSIVE doMenuScan_default(_, _)
doMenuScan_default(k, i) ==
  IF i > nbrMenuItems
    THEN [invoked |-> << Call(nbrMenuItems) >>, scanned |-> nbrMenuItems]
  ELSE IF k = menu[i].key THEN [invoked |-> << Call(i) >>, scanned |-> i]
  ELSE doMenuScan_default(k, i + 1)

\* for (i = ...; i < nbrMenuItems; i++) if (key == menu[i].key) { action; break; }
\* from entry i on: the calls made, in order, and the last entry compared
RECURSIVE doMenuScan(_, _)
doMenuScan(k, i) ==
  IF i > nbrMenuItems THEN [invoked |-> <<>>, scanned |-> nbrMenuItems]
  ELSE IF k = menu[i].key THEN [invoked |-> << Call(i) >>, scanned |-> i]
  ELSE doMenuScan(k, i + 1)

(***************************************************************************)
(* heartbeat                                                               *)
(***************************************************************************)
\* (hi * Limb + lo) % m for a uint32_t held as two half-words
UMod(now, m) == (((now.hi % m) * (Limb % m)) + now.lo) % m

\* variant: <= in place of <
heartbeat_inclusive(now, period, pulseWidth) ==
  IF UMod(now, period) <= pulseWidth THEN "HIGH" ELSE "LOW"

heartbeat(now, period, pulseWidth) ==
  IF UMod(now, period) < pulseWidth THEN "HIGH" ELSE "LOW"

(***************************************************************************)
(* Initial state: after setup(), which prints the menu                     *)
(***************************************************************************)
Init ==
  /\ rx = <<>>
  /\ timeout = DefaultTimeout
  /\ heartbeatEnabled = TRUE
  /\ pin = "LOW"
  /\ pc = "loop"
  /\ cur = ""
  /\ loc = NoLoc
  /\ key = ""
  /\ invoked = <<>>
  /\ scanned = 0
  /\ out = showMenu("")
  /\ text = <<>>
  /\ drained = <<>>
  /\ nArrived = 0
  /\ nKeys = 0
  /\ nDrained = 0
  /\ lastNow = <<>>
  /\ pinWrites = 0
  /\ preToggle = <<>>

(***************************************************************************)
(* The terminal                                                            *)
(***************************************************************************)
\* a byte sent by the terminal is received into the buffer
Arrive ==
  /\ nArrived < MaxInput
  /\ \E b \in (IF nArrived = 0 THEN FirstBytes ELSE LaterBytes) : rx' = Append(rx, b)
  /\ nArrived' = nArrived + 1
  /\ UNCHANGED <<timeout, heartbeatEnabled, pin, pc, cur, loc>>
  /\ UNCHANGED <<dispVars, nKeys, nDrained, beatVars, preToggle>>
(***************************************************************************)
(* loop(): the menu part                                                   *)
(***************************************************************************)
Last2(s) == IF Len(s) > 2 THEN SubSeq(s, Len(s) - 1, Len(s)) ELSE s

\* if (Serial.available()) doMenu();  -- a byte is available
\* doMenu reads the key, clears the line, scans the table and calls the action.
\* An action that reads no input runs to its end here; an input action is
\* entered (its locals initialised) and continues at its delay(2000).
doMenu ==
  /\ pc = "loop"
  /\ rx # <<>>
  /\ LET k == readKey(rx).key
         scan == doMenuScan(k, 1)
         hit == scan.invoked # <<>>
         act == IF hit THEN scan.invoked[1].action ELSE ""
         arg == IF hit THEN scan.invoked[1].arg ELSE ""
         clr == << Emit(CLEAR_LINE, <<>>, 80, 0) >>
     IN /\ key' = k
        /\ rx' = readKey(rx).rest
        /\ nKeys' = nKeys + 1
        /\ invoked' = scan.invoked
        /\ scanned' = scan.scanned
        /\ CASE act = "playRadio" ->
                  /\ out' = clr \o playRadio(arg)
                  /\ pc' = "hb"
                  /\ UNCHANGED <<heartbeatEnabled, cur, loc, preToggle>>
             [] act = "sayHello" ->
                  /\ out' = clr \o sayHello(arg)
                  /\ pc' = "hb"
                  /\ UNCHANGED <<heartbeatEnabled, cur, loc, preToggle>>
             [] act = "showDateTime" ->
                  /\ out' = clr \o showDateTime(arg)
                  /\ pc' = "hb"
                  /\ UNCHANGED <<heartbeatEnabled, cur, loc, preToggle>>
             [] act = "showMenu" ->
                  /\ out' = clr \o showMenu(arg)
                  /\ pc' = "hb"
                  /\ UNCHANGED <<heartbeatEnabled, cur, loc, preToggle>>
             [] act = "toggleHeartbeat" ->
                  /\ heartbeatEnabled' = toggleHeartbeat(heartbeatEnabled).enabled
                  /\ out' = clr \o toggleHeartbeat(heartbeatEnabled).out
                  /\ preToggle' = Last2(Append(preToggle, heartbeatEnabled))
                  /\ pc' = "hb"
                  /\ UNCHANGED <<cur, loc>>
             [] act \in InputActions ->
                  /\ out' = clr
                  /\ pc' = "delay"
                  /\ cur' = act
                  /\ loc' = [NoLoc EXCEPT !.timeout =
                               IF act = "setDateTime" THEN timeout ELSE 0]
                  /\ UNCHANGED <<heartbeatEnabled, preToggle>>
             [] OTHER ->
                  /\ out' = clr
                  /\ pc' = "hb"
                  /\ UNCHANGED <<heartbeatEnabled, cur, loc, preToggle>>
  /\ text' = <<>>
  /\ drained' = <<>>
  /\ lastNow' = <<>>
  /\ pinWrites' = 0
  /\ UNCHANGED <<timeout, pin, nArrived, nDrained>>

\* if (Serial.available()) ...  -- nothing is available
loopIdle ==
  /\ pc = "loop"
  /\ rx = <<>>
  /\ pc' = "hb"
  /\ lastNow' = <<>>
  /\ pinWrites' = 0
  /\ UNCHANGED <<rx, timeout, heartbeatEnabled, pin, cur, loc>>
  /\ UNCHANGED <<dispVars, countVars, preToggle>>

(***************************************************************************)
(* loop(): the heartbeat part, which ends the iteration                    *)
(***************************************************************************)
\* variant: heartbeat() is called whatever the flag
loopHeartbeat_always ==
  /\ pc = "hb"
  /\ \E now \in NowSamples :
       /\ pin' = heartbeat(now, HeartbeatPeriod, HeartbeatPulseWidth)
       /\ lastNow' = <<now>>
       /\ pinWrites' = pinWrites + 1
  /\ pc' = "loop"
  /\ key' = ""
  /\ invoked' = <<>>
  /\ scanned' = 0
  /\ out' = <<>>
  /\ text' = <<>>
  /\ drained' = <<>>
  /\ UNCHANGED <<rx, timeout, heartbeatEnabled, cur, loc, countVars, preToggle>>

loopHeartbeat ==
  /\ pc = "hb"
  /\ IF heartbeatEnabled
       THEN \E now \in NowSamples :
              /\ pin' = heartbeat(now, HeartbeatPeriod, HeartbeatPulseWidth)
              /\ lastNow' = <<now>>
              /\ pinWrites' = pinWrites + 1
       ELSE UNCHANGED <<pin, lastNow, pinWrites>>
  /\ pc' = "loop"
  /\ key' = ""
  /\ invoked' = <<>>
  /\ scanned' = 0
  /\ out' = <<>>
  /\ text' = <<>>
  /\ drained' = <<>>
  /\ UNCHANGED <<rx, timeout, heartbeatEnabled, cur, loc, countVars, preToggle>>

(***************************************************************************)
(* The input handlers: enterInteger, enterFloat, enterString, setDateTime  *)
(***************************************************************************)
\* delay(2000); setDateTime then extends the timeout
delay ==
  /\ pc = "delay"
  /\ pc' = "while"
  /\ timeout' = IF cur = "setDateTime" THEN 3 * loc.timeout ELSE timeout
  /\ text' = rx
  /\ UNCHANGED <<rx, heartbeatEnabled, pin, cur, loc>>
  /\ UNCHANGED <<key, invoked, scanned, out, drained, countVars, beatVars, preToggle>>

\* while (Serial.available()) -- true: call the timed reader
whileAvailable ==
  /\ pc = "while"
  /\ rx # <<>>
  /\ IF cur \in {"enterInteger", "enterFloat"}
       THEN /\ pc' = "peekNextDigit"
            /\ loc' = [loc EXCEPT !.acc = 0, !.isNegative = FALSE,
                                  !.isFraction = FALSE, !.accDigits = 0]
       ELSE /\ pc' = "readString"
            /\ loc' = [loc EXCEPT !.ret = <<>>]
  /\ UNCHANGED <<rx, timeout, heartbeatEnabled, pin, cur>>
  /\ UNCHANGED <<dispVars, countVars, beatVars, preToggle>>

\* variant: the timeout is not restored
restoreTimeout_forgotten(h, l, t) == t

\* variant: the loop waits for input instead of ending
whileDone_busyWait ==
  /\ pc = "while"
  /\ rx = <<>>
  /\ UNCHANGED vars

\* Serial.setTimeout(timeout): setDateTime restores the timeout it saved
restoreTimeout(h, l, t) == IF h = "setDateTime" THEN l.timeout ELSE t

\* while (Serial.available()) -- false: the loop ends; setDateTime restores
\* the timeout
whileDone ==
  /\ pc = "while"
  /\ rx = <<>>
  /\ pc' = "tail"
  /\ timeout' = restoreTimeout(cur, loc, timeout)
  /\ UNCHANGED <<rx, heartbeatEnabled, pin, cur, loc>>
  /\ UNCHANGED <<dispVars, countVars, beatVars, preToggle>>

\* the rest of the handler: the value is printed (setDateTime sets the clock
\* from the text and calls showDateTime), and the handler returns
handlerReturn ==
  /\ pc = "tail"
  /\ out' = CASE cur = "enterInteger" ->
                   Append(out, Emit("%d was entered ", <<>>, loc.value, 0))
              [] cur = "enterFloat" ->
                   Append(out, Emit("%f was entered ", <<>>, loc.value, loc.fdigits))
              [] cur = "enterString" -> Append(out, Emit("%s", loc.str, 0, 0))
              [] cur = "setDateTime" -> out \o showDateTime("")
  /\ pc' = "hb"
  /\ cur' = ""
  /\ loc' = NoLoc
  /\ UNCHANGED <<rx, timeout, heartbeatEnabled, pin>>
  /\ UNCHANGED <<key, invoked, scanned, text, drained, countVars, beatVars, preToggle>>

(***************************************************************************)
(* Stream::parseInt / parseFloat (ESP32 core), as called by the handlers   *)
(***************************************************************************)
\* the body of the reader's do-loop for the peeked character c
parseChar(l, c, isFloat) ==
  IF c = "-" THEN [l EXCEPT !.isNegative = TRUE]
  ELSE IF c = "." /\ isFloat THEN [l EXCEPT !.isFraction = TRUE]
  ELSE IF c \in Digits
    THEN [l EXCEPT !.acc = l.acc * 10 + DigitVal(c),
                   !.accDigits = IF isFloat /\ l.isFraction THEN l.accDigits + 1
                                 ELSE l.accDigits]
  ELSE l

\* the value the reader returns, assigned to the handler's value
parseReturn(l) ==
  [l EXCEPT !.value = IF l.isNegative THEN 0 - l.acc ELSE l.acc,
            !.fdigits = IF l.isFraction THEN l.accDigits ELSE 0]

\* the condition of the reader's do-loop on the peeked character c
parseContinues(c, isFloat) == c \in Digits \/ (isFloat /\ c = ".")

\* peekNextDigit(): discard until a '-' or a digit is peeked, or time out
peekNextDigit ==
  /\ pc = "peekNextDigit"
  /\ IF rx = <<>>
       THEN \* timeout: the reader returns 0
            /\ loc' = [loc EXCEPT !.value = 0, !.fdigits = 0]
            /\ pc' = "while"
            /\ UNCHANGED <<rx, nDrained, drained>>
       ELSE /\ rx' = Tail(rx)
            /\ nDrained' = nDrained + 1
            /\ drained' = Append(drained, Head(rx))
            /\ IF Head(rx) = "-" \/ Head(rx) \in Digits
                 THEN \* first pass of the do-loop: take the character, read() it
                      /\ loc' = parseChar(loc, Head(rx), cur = "enterFloat")
                      /\ pc' = "timedPeek"
                 ELSE \* read(): discard non-numeric
                      /\ UNCHANGED <<loc, pc>>
  /\ UNCHANGED <<timeout, heartbeatEnabled, pin, cur>>
  /\ UNCHANGED <<key, invoked, scanned, out, text, nArrived, nKeys, beatVars, preToggle>>

\* c = timedPeek(); while (c is a digit ...): take it, or return the value
parseNumber ==
  /\ pc = "timedPeek"
  /\ IF rx # <<>> /\ parseContinues(Head(rx), cur = "enterFloat")
       THEN /\ loc' = parseChar(loc, Head(rx), cur = "enterFloat")
            /\ rx' = Tail(rx)
            /\ nDrained' = nDrained + 1
            /\ drained' = Append(drained, Head(rx))
            /\ UNCHANGED pc
       ELSE \* timeout, or a character that ends the number and stays unread
            /\ loc' = parseReturn(loc)
            /\ pc' = "while"
            /\ UNCHANGED <<rx, nDrained, drained>>
  /\ UNCHANGED <<timeout, heartbeatEnabled, pin, cur>>
  /\ UNCHANGED <<key, invoked, scanned, out, text, nArrived, nKeys, beatVars, preToggle>>

(***************************************************************************)
(* Stream::readString, as called by enterString and setDateTime            *)
(***************************************************************************)
\* c = timedRead(); while (c >= 0) { ret += c; c = timedRead(); }
readString ==
  /\ pc = "readString"
  /\ IF rx # <<>>
       THEN /\ loc' = [loc EXCEPT !.ret = Append(loc.ret, Head(rx))]
            /\ rx' = Tail(rx)
            /\ nDrained' = nDrained + 1
            /\ drained' = Append(drained, Head(rx))
            /\ UNCHANGED pc
       ELSE \* timeout: str = the string read
            /\ loc' = [loc EXCEPT !.str = loc.ret, !.ret = <<>>]
            /\ pc' = "while"
            /\ UNCHANGED <<rx, nDrained, drained>>
  /\ UNCHANGED <<timeout, heartbeatEnabled, pin, cur>>
  /\ UNCHANGED <<key, invoked, scanned, out, text, nArrived, nKeys, beatVars, preToggle>>

(***************************************************************************)
(* Specification                                                           *)
(***************************************************************************)
\* the steps of the program's single thread
Program ==
  \/ doMenu
  \/ loopIdle
  \/ loopHeartbeat
  \/ delay
  \/ whileAvailable
  \/ whileDone
  \/ handlerReturn
  \/ peekNextDigit
  \/ parseNumber
  \/ readString

Next == Arrive \/ Program

Spec == Init /\ [][Next]_vars

\* the processor always runs the thread; the terminal may fall silent
LiveSpec == Init /\ [][Next]_vars /\ WF_vars(Program)
(***************************************************************************)
(* Properties                                                              *)
(***************************************************************************)
DeclaredKeys == {menu[i].key : i \in 1..nbrMenuItems}

\* the first table entry, in declaration order, with key k
FirstEntry(k) ==
  CHOOSE i \in 1..nbrMenuItems :
    menu[i].key = k /\ \A j \in 1..(i - 1) : menu[j].key # k

ClearLine == [fmt |-> "\r%*c\r", s |-> <<>>, n |-> 80, d |-> 0]

Dispatching == pc \notin {"loop", "hb"}

\* C1: a doMenu() call that reads a declared key makes exactly one call: the
\* action of the first table entry with that key, with that entry's argument,
\* and compares no entry after it; an input action so called is the one that
\* runs, an action that reads no input has run to its end and read nothing,
\* and playRadio and sayHello print the argument they were called with.
C1_DeclaredKeyCallsFirstEntry ==
  key \in DeclaredKeys =>
    LET e == menu[FirstEntry(key)]
    IN /\ invoked = << [action |-> e.action, arg |-> e.arg] >>
       /\ scanned = FirstEntry(key)
       /\ out[1] = ClearLine
       /\ (Dispatching => cur = e.action)
       /\ (e.action \notin InputActions => ~Dispatching /\ drained = <<>>)
       /\ (e.action = "playRadio" =>
             out = << ClearLine, [fmt |-> "Playing: %s", s |-> <<e.arg>>, n |-> 0, d |-> 0] >>)
       /\ (e.action = "sayHello" =>
             out = << ClearLine, [fmt |-> "%s", s |-> <<e.arg>>, n |-> 0, d |-> 0] >>)

C1_Witness ==
  /\ key = "1"
  /\ pc = "hb"
  /\ scanned = 2
  /\ invoked = << [action |-> "playRadio",
                   arg |-> "http://stream.srg-ssr.ch/m/regi_ag_so/mp3_128"] >>

\* C2: a doMenu() call that reads a key found in no table entry makes no call,
\* prints the line-clear sequence and nothing else, and leaves the heartbeat
\* flag, the timeout, the pin, the handler state and the rest of the receive
\* buffer as they were; the loop goes on to its heartbeat part.
C2_UnknownKeyIgnored ==
  [][ (pc = "loop" /\ pc' # "loop" /\ rx # <<>> /\ Head(rx) \notin DeclaredKeys)
        => /\ key' = Head(rx)
           /\ invoked' = <<>>
           /\ out' = << ClearLine >>
           /\ pc' = "hb"
           /\ rx' = Tail(rx)
           /\ <<timeout, heartbeatEnabled, pin, cur, loc, preToggle>>'
                = <<timeout, heartbeatEnabled, pin, cur, loc, preToggle>> ]_vars

C2_Witness ==
  /\ key = "x"
  /\ pc = "hb"
  /\ invoked = <<>>
  /\ out = << ClearLine >>
  /\ scanned = nbrMenuItems

\* the integer formed by the first optional sign and digits of a text
RECURSIVE SkipNonNumeric(_)
SkipNonNumeric(t) ==
  IF t = <<>> \/ Head(t) = "-" \/ Head(t) \in Digits THEN t
  ELSE SkipNonNumeric(Tail(t))

RECURSIVE DigitsValue(_, _)
DigitsValue(t, acc) ==
  IF t = <<>> \/ Head(t) \notin Digits THEN acc
  ELSE DigitsValue(Tail(t), acc * 10 + DigitVal(Head(t)))

LeadingInteger(t) ==
  LET u == SkipNonNumeric(t)
  IN IF u = <<>> THEN 0
     ELSE IF Head(u) = "-" THEN 0 - DigitsValue(Tail(u), 0)
     ELSE DigitsValue(u, 0)

\* C3: when enterInteger has returned, having read exactly the text that was
\* in the receive buffer at the end of its delay, the value it printed is the
\* integer formed by the text's first optional sign and digits, whatever
\* follows them, and 0 when the text holds none.
C3_IntegerIsLeadingNumber ==
  (key = "i" /\ pc = "hb" /\ drained = text) =>
    /\ out[Len(out)].fmt = "%d was entered "
    /\ out[Len(out)].n = LeadingInteger(text)

\* C4: the level heartbeat() wrote for the clock value it read is HIGH exactly
\* when (now mod 1000) < 20 and LOW otherwise.
C4_HeartbeatLevel ==
  lastNow # <<>> =>
    /\ (pin = "HIGH" <=> UMod(lastNow[1], 1000) < 20)
    /\ (pin = "LOW" <=> ~(UMod(lastNow[1], 1000) < 20))

\* millis() = 4294967019, in the last pulse before the counter wraps
C4_Witness ==
  /\ lastNow = << [hi |-> 65535, lo |-> 65259] >>
  /\ pin = "HIGH"

\* C5: the pin is written in no step taken from the menu part of the loop or
\* from inside a handler, so no write is counted while a dispatch runs; the
\* heartbeat part of each iteration, entered with no write counted, writes
\* the pin exactly once when the flag is set at that point and not at all
\* when it is clear.
C5_PinWrittenOnlyAfterDispatch ==
  [][ /\ (pc # "hb" => pin' = pin /\ pinWrites' \in {0, pinWrites})
      /\ (Dispatching' => pinWrites' = 0)
      /\ (pc = "hb" =>
            /\ pinWrites = 0
            /\ pc' = "hb" \/ pinWrites' = (IF heartbeatEnabled THEN 1 ELSE 0)
            /\ (~heartbeatEnabled => pin' = pin)) ]_vars

\* an iteration that began with the flag clear, ran an input handler and
\* ended without a write
C5_Witness ==
  /\ pc = "loop"
  /\ pinWrites = 0
  /\ ~heartbeatEnabled
  /\ nDrained > 0
  /\ nKeys = 2

\* C6: the flag is true at start-up, and a step changes it only if it is a
\* doMenu() call that reads the key 't'.
C6_FlagChangesOnlyOnToggleKey ==
  /\ heartbeatEnabled = TRUE
  /\ [][ heartbeatEnabled' # heartbeatEnabled
           => (pc = "loop" /\ rx # <<>> /\ Head(rx) = "t" /\ key' = "t") ]_vars

\* the flag, cleared by 't', is still clear after a handler that read input
C6_Witness ==
  /\ ~heartbeatEnabled
  /\ pc = "hb"
  /\ key \in {"i", "f", "s", "d"}
  /\ Len(drained) > 0

\* C7: after a toggleHeartbeat call the flag is the negation of what it was
\* before that call; after two calls (and whatever was dispatched in between)
\* it is what it was before the first of them; and the message printed by a
\* call names the new value.
C7_ToggleTwiceRestores ==
  /\ (Len(preToggle) >= 1 => heartbeatEnabled = ~preToggle[Len(preToggle)])
  /\ (Len(preToggle) = 2 => heartbeatEnabled = preToggle[1])
  /\ (key = "t" =>
        out = << ClearLine,
                 [fmt |-> IF heartbeatEnabled THEN "Heartbeat on " ELSE "Heartbeat off ",
                  s |-> <<>>, n |-> 0, d |-> 0] >>)

\* three keys dispatched, two of them 't', the second toggle just made
C7_Witness ==
  /\ preToggle = <<TRUE, FALSE>>
  /\ heartbeatEnabled
  /\ key = "t"
  /\ nKeys = 3
  /\ out[2].fmt = "Heartbeat on "

\* C8: while setDateTime reads, the timeout is 3 times the value it had when
\* the handler was entered; before its read, after its return, in the main
\* loop and in every other handler the timeout is the default value.
C8_TimeoutExtendedOnlyInSetDateTime ==
  /\ (cur = "setDateTime" /\ pc \in {"while", "readString"} =>
        /\ loc.timeout = DefaultTimeout
        /\ timeout = 3 * DefaultTimeout)
  /\ (cur = "setDateTime" /\ pc \in {"delay", "tail"} => timeout = DefaultTimeout)
  /\ (cur # "setDateTime" => timeout = DefaultTimeout)

\* setDateTime has read some text under the extended timeout and returned
C8_Witness ==
  /\ key = "d"
  /\ pc = "hb"
  /\ Len(drained) > 0
  /\ timeout = 1000

\* C9: doMenu() is called only from the top of the loop with a byte
\* available; from every state the thread has a step to take; and every
\* dispatch that is running is eventually followed by the loop being back in
\* its own code (the terminal sends finitely many bytes).
C9_DispatchReturns ==
  /\ [][ nKeys' # nKeys => (pc = "loop" /\ rx # <<>>) ]_vars
  /\ [](ENABLED Program)
  /\ (Dispatching ~> ~Dispatching)

\* the integer handler has read two bytes and returned to the loop
C9_Witness ==
  /\ key = "i"
  /\ pc = "hb"
  /\ Len(drained) = 2
  /\ nArrived = 3

\* what C10 says of every step but a handler's return: every byte received
\* is in the buffer, or was read once as a key, or was read once by a timed
\* reader; a doMenu() call takes exactly the first byte of the buffer as its
\* key, and an action that reads no input leaves the rest in place and in
\* order; every other read takes exactly the first byte
ByteAccounting ==
  /\ nArrived' = nKeys' + nDrained' + Len(rx')
  /\ (nKeys' # nKeys =>
        /\ nKeys' = nKeys + 1
        /\ nDrained' = nDrained
        /\ key' = Head(rx)
        /\ rx' = Tail(rx))
  /\ (nDrained' # nDrained =>
        /\ nDrained' = nDrained + 1
        /\ nKeys' = nKeys
        /\ drained' = Append(drained, Head(rx))
        /\ rx' = Tail(rx))
  /\ (nKeys' = nKeys /\ nDrained' = nDrained /\ nArrived' = nArrived => rx' = rx)
  /\ (nArrived' # nArrived => SubSeq(rx', 1, Len(rx)) = rx)

\* C10 (as amended): every byte received is consumed exactly once, as the key
\* of one doMenu() call or by the draining read of an input handler, in
\* arrival order; and when the draining loop of an input handler ends, the
\* buffer is empty.
C10_EachByteConsumedOnce ==
  [][ /\ ByteAccounting
      /\ (pc = "while" /\ pc' = "tail" => rx' = <<>>) ]_vars

\* C10 (as claimed): the same, with the buffer empty when the input handler
\* returns.
C10_BufferEmptyAtReturn ==
  [][ /\ ByteAccounting
      /\ (Dispatching /\ ~Dispatching' => rx' = <<>>) ]_vars

\* a first key dispatched, then the key of the string handler, which drained
\* the byte that followed it
C10_Witness ==
  /\ nKeys = 2
  /\ nDrained = 1
  /\ rx = <<>>
  /\ pc = "hb"
  /\ key = "s"

====
